---- MODULE Spec2Model ----
(***************************************************************************)
(* Session / token lifecycle of the Pronote assistant front end.           *)
(*                                                                         *)
(* The browser runs the handlers of api-client.js, auth.js,                *)
(* pronote-data.js, chat.js and app.js on one event loop.  A handler runs  *)
(* without interruption from one await of a network result to the next,    *)
(* so every action below is one such uninterrupted run: an event handler   *)
(* up to its first fetch, or the continuation of a handler when the answer *)
(* of its fetch arrives (the reading of the status line and of the body    *)
(* of one answer touch no shared state between them and are one step).     *)
(* Purely visual state (backend banner, form reset, scroll position) is    *)
(* not part of the state.                                                  *)
(***************************************************************************)
EXTENDS Integers, Sequences, FiniteSets, Bags, TLC

VARIABLES
    storage,      \* sessionStorage item 'access_token' (Null when absent)
    accessToken,  \* APIClient.accessToken
    currentUser,  \* AuthManager.currentUser
    screen,       \* which screen carries the class 'active'
    entOptions,   \* option values appended to #ent-selector
    initialized,  \* App.initialized
    data,         \* PronoteDataManager.data
    view,         \* what each of the three list containers shows
    messages,     \* ChatManager.messages
    isTyping,     \* ChatManager.isTyping
    inflight,     \* bag of the fetches awaiting their answer
    loginRet,     \* value just returned by loginDirect / loginCAS, not yet
                  \* consumed by the login handler (NoRet otherwise)
    wire,         \* the fetch calls issued by the latest step
    shown,        \* the message the latest step passed to AuthManager.showError
    settled,      \* how the request answered by the latest step settled,
                  \* for the two callers that swallow the outcome and clear
                  \* the token (logout, session restore); NoResult otherwise
    unhandled,    \* handlers whose promise was rejected
    ops           \* number of requests started by user events so far

vars == <<storage, accessToken, currentUser, screen, entOptions,
          initialized, data, view, messages, isTyping,
          inflight, loginRet, wire, shown, settled, unhandled, ops>>

(***************************************************************************)
(* Bounds of the exploration.                                              *)
(***************************************************************************)
MaxOps == 3

(***************************************************************************)
(* JavaScript values: a pair <<type, text>>.                               *)
(***************************************************************************)
Undefined == <<"undefined", "">>
Null == <<"null", "">>
JTrue == <<"boolean", "true">>
JFalse == <<"boolean", "false">>
Str(s) == <<"string", s>>
Obj(n) == <<"object", n>>
Arr(n) == <<"array", n>>
Num(n) == <<"number", n>>

\* ToBoolean: what `if (v)`, `!v`, `!!v`, `a && b`, `a || b` test.
Truthy(v) == v \notin {Undefined, Null, JFalse, Str(""), Num("0")}

\* ToString, as applied by sessionStorage.setItem and by template literals.
ToJSString(v) ==
    CASE v[1] = "string" -> v[2]
      [] v[1] = "undefined" -> "undefined"
      [] v[1] = "null" -> "null"
      [] v[1] = "boolean" -> v[2]
      [] v[1] = "object" -> "[object Object]"
      [] OTHER -> v[2]

\* Property read obj.field of a parsed JSON object.
Get(obj, field) == IF field \in DOMAIN obj THEN obj[field] ELSE Undefined

\* a || b
OrElse(a, b) == IF Truthy(a) THEN a ELSE b

\* String.prototype.trim on the strings used as form input.
Trim(s) == IF s = " " THEN "" ELSE s

ArrayLength(a) ==
    CASE a = Arr("[]") -> 0
      [] a = Arr("[x]") -> 1
      [] a = Arr("[x,y]") -> 2
      [] OTHER -> 0

Tokens == {"t2"}
Alice == Obj("alice")

Views == {"homework", "timetable", "grades"}
Endpoint(op) ==
    CASE op = "direct" -> "/api/auth/login/direct"
      [] op = "cas" -> "/api/auth/login/cas"
      [] op = "logout" -> "/api/auth/logout"
      [] op = "homework" -> "/api/pronote/homework"
      [] op = "timetable" -> "/api/pronote/timetable"
      [] op = "grades" -> "/api/pronote/grades"
      [] op = "chat" -> "/api/ai/chat"
      [] op = "ents" -> "/api/ents"
      [] op \in {"health1", "health2"} -> "/api/health"
Method(op) == IF op \in {"ents", "health1", "health2"} THEN "GET" ELSE "POST"

(***************************************************************************)
(* Token store (APIClient.saveToken / loadToken / clearToken).             *)
(* A store is the pair [mem |-> accessToken, item |-> sessionStorage item].*)
(***************************************************************************)
SaveTokenMemoryOnly(st, token) == [mem |-> token, item |-> st.item]
SaveTokenIfAbsent(st, token) ==
    IF st.item = Null THEN [mem |-> token, item |-> Str(ToJSString(token))] ELSE st
SaveToken(st, token) == [mem |-> token, item |-> Str(ToJSString(token))]

LoadToken(st) == st.item

ClearTokenKeepsMemory(st) == [mem |-> st.mem, item |-> Null]
ClearToken(st) == [mem |-> Null, item |-> Null]

ApiIsAuthenticated(st) == Truthy(st.mem)

Store == [mem |-> accessToken, item |-> storage]

(***************************************************************************)
(* APIClient.request, first half: the fetch configuration.                 *)
(***************************************************************************)
\* {...a, ...b} on header objects; spreading undefined adds nothing.
Spread(a, b) ==
    [k \in (DOMAIN a) \cup (DOMAIN b) |-> IF k \in DOMAIN b THEN b[k] ELSE a[k]]

NoHeaders == [k \in {} |-> ""]

DefaultHeadersAlwaysBearer(token) ==
    [k \in {"Content-Type", "Authorization"} |->
        IF k = "Content-Type" THEN "application/json"
        ELSE "Bearer " \o ToJSString(token)]
DefaultHeaders(token) ==
    IF Truthy(token)
    THEN [k \in {"Content-Type", "Authorization"} |->
            IF k = "Content-Type" THEN "application/json"
            ELSE "Bearer " \o ToJSString(token)]
    ELSE [k \in {"Content-Type"} |-> "application/json"]

\* get / post / delete pass no headers option.
FetchConfig(token, op) ==
    [endpoint |-> Endpoint(op),
     method |-> Method(op),
     headers |-> Spread(DefaultHeaders(token), NoHeaders)]

(***************************************************************************)
(* What the network can answer to one fetch.                               *)
(***************************************************************************)
NoBody == [k \in {} |-> Undefined]
Unparseable == [unparseable |-> JTrue]   \* response.json() rejects

NetError == [kind |-> "neterror", status |-> 0, body |-> NoBody]
Http(status, body) == [kind |-> "http", status |-> status, body |-> body]

\* Error bodies of a non-2xx answer; the message is only ever shown by the
\* login forms, so the other endpoints get one body.
ErrorBodies(op) ==
    IF op \in {"direct", "cas"}
    THEN {Unparseable, NoBody, [detail |-> Str("detail text")], [error |-> Str("error text")]}
    ELSE {NoBody}

LoginBodies ==
    {[success |-> JTrue, access_token |-> Str(t), student |-> Alice] : t \in Tokens}
    \cup {[success |-> JTrue, access_token |-> Str("t2")],
          [success |-> JTrue, student |-> Alice],
          [success |-> JFalse],
          Unparseable}

ListField(op) == op
DataBodies(op) ==
    {[success |-> JTrue] @@ (ListField(op) :> Arr(n)) : n \in {"[]", "[x]"}}
    \cup {[success |-> JTrue], [success |-> JFalse], Unparseable}

ChatBodies ==
    {[success |-> JTrue, response |-> Str("reply")],
     [success |-> JTrue], [success |-> JFalse], Unparseable}

EntsBodies == {[ents |-> Arr("[x]")], NoBody, Unparseable}
HealthBodies == {[status |-> Str("healthy")], Unparseable}

OkBodies(op) ==
    CASE op \in {"direct", "cas"} -> LoginBodies
      [] op \in Views -> DataBodies(op)
      [] op = "chat" -> ChatBodies
      [] op = "ents" -> EntsBodies
      [] op \in {"health1", "health2"} -> HealthBodies
      [] op = "logout" -> {[success |-> JTrue], Unparseable}

Answers(op) ==
    {NetError, Http(401, NoBody)}
    \cup {Http(500, b) : b \in ErrorBodies(op)}
    \cup {Http(200, b) : b \in OkBodies(op)}

\* The answers given while the session lifecycle is explored: all of them
\* for the two logins and for logout; for the endpoints that do not decide
\* the session a 401, one other failure and one well-formed success.
SessionAnswers(op) ==
    CASE op \in {"direct", "cas"} -> Answers(op)
      [] op = "logout" -> Answers(op) \ {Http(200, Unparseable)}
      [] op \in Views ->
            {NetError, Http(401, NoBody),
             Http(200, [success |-> JTrue] @@ (ListField(op) :> Arr("[x]")))}
      [] op = "ents" -> {NetError, Http(401, NoBody), Http(200, [ents |-> Arr("[x]")])}
      [] OTHER -> {Http(500, NoBody), Http(401, NoBody), Http(200, [status |-> Str("healthy")])}

(***************************************************************************)
(* APIClient.request, second half: the answer.  The result says whether    *)
(* request() threw, with which message, which data it returned and the     *)
(* token store it leaves.                                                  *)
(***************************************************************************)
SessionExpiredMsg == "Session expirée. Veuillez vous reconnecter."
NetworkErrorMsg == "Failed to fetch"
JsonErrorMsg == "Unexpected token in JSON"

Ok(r) == r.status >= 200 /\ r.status <= 299

Thrown(msg, st, status) ==
    [threw |-> TRUE, message |-> msg, data |-> NoBody, store |-> st, status |-> status]
Returned(d, st, status) ==
    [threw |-> FALSE, message |-> "", data |-> d, store |-> st, status |-> status]

RequestKeepsTokenOn401(st, r) ==
    IF r.kind = "neterror" THEN Thrown(NetworkErrorMsg, st, 0)
    ELSE IF r.status = 401 THEN Thrown(SessionExpiredMsg, st, 401)
    ELSE Thrown("Erreur HTTP " \o ToString(r.status), st, r.status)
RequestClearsOnAnyError(st, r) ==
    IF r.kind = "neterror" THEN Thrown(NetworkErrorMsg, ClearToken(st), 0)
    ELSE IF r.status = 401 THEN Thrown(SessionExpiredMsg, ClearToken(st), 401)
    ELSE IF ~Ok(r) THEN Thrown("Erreur HTTP " \o ToString(r.status), ClearToken(st), r.status)
    ELSE Returned(r.body, st, r.status)
RequestClearsMemoryOnly(st, r) ==
    IF r.kind = "neterror" THEN Thrown(NetworkErrorMsg, st, 0)
    ELSE IF r.status = 401
    THEN Thrown(SessionExpiredMsg, [mem |-> Null, item |-> st.item], 401)
    ELSE IF ~Ok(r) THEN Thrown("Erreur HTTP " \o ToString(r.status), st, r.status)
    ELSE IF r.body = Unparseable THEN Thrown(JsonErrorMsg, st, r.status)
    ELSE Returned(r.body, st, r.status)
Request(st, r) ==
    IF r.kind = "neterror" THEN Thrown(NetworkErrorMsg, st, 0)
    ELSE IF r.status = 401 THEN Thrown(SessionExpiredMsg, ClearToken(st), 401)
    ELSE IF ~Ok(r) THEN
        LET errorData == IF r.body = Unparseable THEN NoBody ELSE r.body
            msg == OrElse(OrElse(Get(errorData, "detail"), Get(errorData, "error")),
                          Str("Erreur HTTP " \o ToString(r.status)))
        IN  Thrown(ToJSString(msg), st, r.status)
    ELSE IF r.body = Unparseable THEN Thrown(JsonErrorMsg, st, r.status)
    ELSE Returned(r.body, st, r.status)

(***************************************************************************)
(* Bookkeeping of the fetches in flight.                                   *)
(***************************************************************************)
Launch(bag, op) == bag (+) SetToBag({op})
TakeCoalesced(bag, op) == [x \in DOMAIN bag \ {op} |-> bag[x]]
Take(bag, op) == bag (-) SetToBag({op})
Pending(op) == BagIn(op, inflight)

SignedOutText == "Connectez-vous pour voir vos données"

NoRet == [op |-> "none", response |-> NoBody]
NoResult ==
    [op |-> "none", status |-> 0, threw |-> FALSE, message |-> "", held |-> FALSE,
     again |-> FALSE]
\* held: a token was held when the answer arrived; again: the client was
\* already signed out by an earlier logout when the answer arrived.
Settle(op, r, res) ==
    IF op \notin {"logout", "health2"} THEN NoResult ELSE
    [op |-> op, status |-> res.status, threw |-> res.threw, message |-> res.message,
     held |-> Truthy(accessToken),
     again |-> /\ \A v \in Views : view[v] = <<"empty", SignedOutText>>
               /\ currentUser = Null /\ accessToken = Null /\ storage = Null]

\* No login handler is between the return of its API call and its own
\* continuation: other events are only dispatched then.
Idle == loginRet = NoRet

\* AuthManager.setLoading(true) ... setLoading(false): while a login or a
\* logout awaits its answer the overlay is shown and the submit buttons are
\* disabled.
\* The login forms are submitted from the login screen, which
\* onLoginSuccess replaces by the dashboard; handleLogout is also called
\* again after a logout has completed.
Loading == Pending("direct") \/ Pending("cas") \/ Pending("logout")

(***************************************************************************)
(* Initial state: the scripts have run.  new APIClient() has read the      *)
(* token a previous page of the same tab may have left; new AuthManager()  *)
(* has called loadENTs(); initApp() has called App.init(), which awaits    *)
(* checkBackendConnection().                                               *)
(***************************************************************************)
ConstructorToken(item) == LoadToken([mem |-> Null, item |-> item])

Init ==
    /\ storage \in {Null, Str("t1")}
    /\ accessToken = ConstructorToken(storage)
    /\ currentUser = Null
    /\ screen = "login"
    /\ entOptions = {}
    /\ initialized = FALSE
    /\ data = [v \in Views |-> Arr("[]")]
    /\ view = [v \in Views |-> <<"initial", "">>]
    /\ messages = <<>>
    /\ isTyping = FALSE
    /\ inflight = SetToBag({"ents", "health1"})
    /\ loginRet = NoRet
    /\ wire = <<FetchConfig(accessToken, "ents"), FetchConfig(accessToken, "health1")>>
    /\ shown = ""
    /\ settled = NoResult
    /\ unhandled = {}
    /\ ops = 0

(***************************************************************************)
(* ChatManager.addMessage / clearMessages.                                 *)
(***************************************************************************)
MAX_CHAT_MESSAGES == 100

AddMessageKeepsOldest(msgs, role, content) ==
    LET pushed == Append(msgs, [role |-> role, content |-> content])
    IN  IF Len(pushed) > MAX_CHAT_MESSAGES
        THEN SubSeq(pushed, 1, MAX_CHAT_MESSAGES)
        ELSE pushed
AddMessage(msgs, role, content) ==
    LET pushed == Append(msgs, [role |-> role, content |-> content])
    IN  IF Len(pushed) > MAX_CHAT_MESSAGES
        THEN SubSeq(pushed, Len(pushed) - MAX_CHAT_MESSAGES + 1, Len(pushed))
        ELSE pushed

(***************************************************************************)
(* AuthManager: the two login forms.                                       *)
(***************************************************************************)
FormValues == {"", " ", "x"}
\* The submitted <<url, username, password>>: all filled in, or one of them
\* left empty.
Forms ==
    {<<"x", "x", "x">>}
    \cup {[i \in 1..3 |-> IF i = j THEN "" ELSE "x"] : j \in 1..3}
FillAllFieldsMsg == "Veuillez remplir tous les champs"

\* The check of handleDirectLogin / handleCASLogin before any request:
\* TRUE when the submission is refused.
DirectRejects(url, username, password) ==
    Trim(url) = "" \/ Trim(username) = "" \/ password = ""

CASIgnoresProvider(url, username, password, entName) ==
    Trim(url) = "" \/ Trim(username) = "" \/ password = ""
CASRejects(url, username, password, entName) ==
    Trim(url) = "" \/ Trim(username) = "" \/ password = "" \/ entName = ""

\* The value of #ent-selector: one of the options loadENTs appended, or
\* nothing.
SelectorValues == {""} \cup entOptions

HandleDirectLogin(url, username, password) ==
    /\ Idle
    /\ ~Loading
    /\ screen = "login"
    /\ settled' = NoResult
    /\ IF DirectRejects(url, username, password)
       THEN /\ shown' = FillAllFieldsMsg
            /\ wire' = <<>>
            /\ UNCHANGED <<inflight, ops>>
       ELSE /\ ops < MaxOps
            /\ ops' = ops + 1
            /\ inflight' = Launch(inflight, "direct")
            /\ wire' = <<FetchConfig(accessToken, "direct")>>
            /\ shown' = ""
    /\ UNCHANGED <<storage, accessToken, currentUser, screen, entOptions, initialized,
                   data, view, messages, isTyping, loginRet, unhandled>>

HandleCASLogin(url, username, password, entName) ==
    /\ Idle
    /\ ~Loading
    /\ screen = "login"
    /\ settled' = NoResult
    /\ IF CASRejects(url, username, password, entName)
       THEN /\ shown' = FillAllFieldsMsg
            /\ wire' = <<>>
            /\ UNCHANGED <<inflight, ops>>
       ELSE /\ ops < MaxOps
            /\ ops' = ops + 1
            /\ inflight' = Launch(inflight, "cas")
            /\ wire' = <<FetchConfig(accessToken, "cas")>>
            /\ shown' = ""
    /\ UNCHANGED <<storage, accessToken, currentUser, screen, entOptions, initialized,
                   data, view, messages, isTyping, loginRet, unhandled>>

(***************************************************************************)
(* APIClient.loginDirect / loginCAS after the post has returned.           *)
(***************************************************************************)
LoginStore(st, response) ==
    IF Truthy(Get(response, "success")) /\ Truthy(Get(response, "access_token"))
    THEN SaveToken(st, Get(response, "access_token"))
    ELSE st

DefaultLoginError(op) ==
    IF op = "direct" THEN "Erreur de connexion" ELSE "Erreur d'authentification CAS"
LoginFailedMsg(op) ==
    IF op = "direct" THEN "Échec de l'authentification"
    ELSE "Échec de l'authentification CAS"
\* Reading .student_name of undefined or null in onLoginSuccess.
TypeErrorMsg(v) == "Cannot read properties of " \o ToJSString(v)

\* The answer of the login post arrives: request() settles; when it throws,
\* the handler's catch shows the message; when it returns, loginDirect /
\* loginCAS store the token and return the response to the handler.
LoginApiReturn(op, r) ==
    /\ Idle
    /\ Pending(op)
    /\ LET res == Request(Store, r)
       IN  /\ settled' = Settle(op, r, res)
           /\ inflight' = Take(inflight, op)
           /\ IF res.threw
              THEN /\ storage' = res.store.item
                   /\ accessToken' = res.store.mem
                   /\ shown' = ToJSString(OrElse(Str(res.message), Str(DefaultLoginError(op))))
                   /\ loginRet' = NoRet
              ELSE /\ storage' = LoginStore(res.store, res.data).item
                   /\ accessToken' = LoginStore(res.store, res.data).mem
                   /\ loginRet' = [op |-> op, response |-> res.data]
                   /\ shown' = ""
    /\ wire' = <<>>
    /\ UNCHANGED <<currentUser, screen, entOptions, initialized, data,
                   view, messages, isTyping, unhandled, ops>>

WelcomeText == "Bonjour ... ! Je suis ton assistant IA."

\* The profile the handler records from a response it takes as a success.
RecordedUser(response) == Get(response, "student")

\* Whether the handler takes the response as a successful login.
HandlerAccepts(response) == Truthy(Get(response, "success"))

\* The login handler resumes with the response: it records the profile and
\* runs onLoginSuccess (which starts loadAllData and greets in the chat), or
\* shows the failure.
LoginContinue ==
    /\ loginRet # NoRet
    /\ loginRet' = NoRet
    /\ settled' = NoResult
    /\ LET response == loginRet.response
           user == RecordedUser(response)
       IN  IF HandlerAccepts(response)
           THEN /\ currentUser' = user
                /\ IF user \in {Undefined, Null}
                   THEN \* onLoginSuccess throws; the handler's catch shows it
                        /\ shown' = TypeErrorMsg(user)
                        /\ wire' = <<>>
                        /\ UNCHANGED <<screen, view, inflight, messages>>
                   ELSE /\ screen' = "dashboard"
                        /\ view' = [v \in Views |-> <<"loading", "">>]
                        /\ inflight' = Launch(Launch(Launch(inflight, "homework"),
                                                     "timetable"), "grades")
                        /\ wire' = <<FetchConfig(accessToken, "homework"),
                                     FetchConfig(accessToken, "timetable"),
                                     FetchConfig(accessToken, "grades")>>
                        /\ messages' = AddMessage(messages, "assistant", WelcomeText)
                        /\ shown' = ""
           ELSE /\ shown' = LoginFailedMsg(loginRet.op)
                /\ wire' = <<>>
                /\ UNCHANGED <<currentUser, screen, view, inflight, messages>>
    /\ UNCHANGED <<storage, accessToken, entOptions, initialized, data,
                   isTyping, unhandled, ops>>

(***************************************************************************)
(* AuthManager.isAuthenticated.                                            *)
(***************************************************************************)
AuthIsAuthenticated(st, user) == ApiIsAuthenticated(st) /\ user # Null

IsAuthenticated == AuthIsAuthenticated(Store, currentUser)

(***************************************************************************)
(* Logout: APIClient.logout inside AuthManager.handleLogout.               *)
(***************************************************************************)
\* try { await post } finally { clearToken }: the failure of the post, if
\* any, leaves logout() after the token is cleared.
ApiLogoutClearsOnSuccessOnly(st, r) ==
    LET res == Request(st, r)
    IN  [threw |-> res.threw, message |-> res.message,
         store |-> IF res.threw THEN res.store ELSE ClearToken(res.store)]
ApiLogout(st, r) ==
    LET res == Request(st, r)
    IN  [threw |-> res.threw, message |-> res.message, store |-> ClearToken(res.store)]

\* try { await apiClient.logout() } catch { errorLog }: what leaves the
\* handler (rejected: its promise is rejected).
HandleLogoutRethrows(st, r) ==
    [rejected |-> ApiLogout(st, r).threw, store |-> ApiLogout(st, r).store]
HandleLogoutOutcome(st, r) ==
    [rejected |-> FALSE, store |-> ApiLogout(st, r).store]

HandleLogout ==
    /\ Idle
    /\ ~Loading
    /\ ops < MaxOps
    /\ ops' = ops + 1
    /\ inflight' = Launch(inflight, "logout")
    /\ wire' = <<FetchConfig(accessToken, "logout")>>
    /\ shown' = ""
    /\ settled' = NoResult
    /\ UNCHANGED <<storage, accessToken, currentUser, screen, entOptions,
                   initialized, data, view, messages, isTyping, loginRet,
                   unhandled>>

\* The answer of the logout post arrives: logout() clears the token, the
\* handler swallows the failure and runs onLogoutSuccess (profile, screen,
\* chat and data are reset).
LogoutReturn(r) ==
    /\ Idle
    /\ Pending("logout")
    /\ LET out == HandleLogoutOutcome(Store, r)
       IN  /\ storage' = out.store.item
           /\ accessToken' = out.store.mem
           /\ unhandled' = IF out.rejected THEN unhandled \cup {"handleLogout"} ELSE unhandled
    /\ settled' = Settle("logout", r, Request(Store, r))
    /\ inflight' = Take(inflight, "logout")
    /\ currentUser' = Null
    /\ screen' = "login"
    /\ messages' = <<>>
    /\ data' = [v \in Views |-> Arr("[]")]
    /\ view' = [v \in Views |-> <<"empty", SignedOutText>>]
    /\ wire' = <<>>
    /\ shown' = ""
    /\ UNCHANGED <<entOptions, initialized, isTyping, loginRet, ops>>

(***************************************************************************)
(* AuthManager.loadENTs, started by the constructor.                       *)
(***************************************************************************)
EntsReturn(r) ==
    /\ Idle
    /\ Pending("ents")
    /\ LET res == Request(Store, r)
       IN  /\ settled' = Settle("ents", r, res)
           /\ storage' = res.store.item
           /\ accessToken' = res.store.mem
           /\ entOptions' = IF ~res.threw /\ Truthy(Get(res.data, "ents"))
                            THEN entOptions \cup {"ent1"}
                            ELSE entOptions
    /\ inflight' = Take(inflight, "ents")
    /\ wire' = <<>>
    /\ shown' = ""
    /\ UNCHANGED <<currentUser, screen, initialized, data, view,
                   messages, isTyping, loginRet, unhandled, ops>>

(***************************************************************************)
(* App.init: checkBackendConnection, then attemptSessionRestore when the   *)
(* client holds a token at that moment.                                    *)
(***************************************************************************)
\* Whether init goes on to attemptSessionRestore.
InitRestores(st) == ApiIsAuthenticated(st)

InitHealthReturn(r) ==
    /\ Idle
    /\ Pending("health1")
    /\ LET res == Request(Store, r)
       IN  /\ settled' = Settle("health1", r, res)
           /\ storage' = res.store.item
           /\ accessToken' = res.store.mem
           /\ IF InitRestores(res.store)
              THEN /\ inflight' = Launch(Take(inflight, "health1"), "health2")
                   /\ wire' = <<FetchConfig(res.store.mem, "health2")>>
                   /\ UNCHANGED initialized
              ELSE /\ inflight' = Take(inflight, "health1")
                   /\ wire' = <<>>
                   /\ initialized' = TRUE
    /\ shown' = ""
    /\ UNCHANGED <<currentUser, screen, entOptions, data, view, messages,
                   isTyping, loginRet, unhandled, ops>>

\* attemptSessionRestore: the token is cleared whether the health check
\* succeeded or failed.
RestoreKeepsValidToken(st, r) ==
    IF Request(st, r).threw THEN ClearToken(Request(st, r).store) ELSE Request(st, r).store
RestoreOutcome(st, r) == ClearToken(Request(st, r).store)

RestoreReturn(r) ==
    /\ Idle
    /\ Pending("health2")
    /\ settled' = Settle("health2", r, Request(Store, r))
    /\ storage' = RestoreOutcome(Store, r).item
    /\ accessToken' = RestoreOutcome(Store, r).mem
    /\ initialized' = TRUE
    /\ inflight' = Take(inflight, "health2")
    /\ wire' = <<>>
    /\ shown' = ""
    /\ UNCHANGED <<currentUser, screen, entOptions, data, view,
                   messages, isTyping, loginRet, unhandled, ops>>

(***************************************************************************)
(* PronoteDataManager: loadHomework / loadTimetable / loadGrades.          *)
(***************************************************************************)
EmptyText(v) ==
    CASE v = "homework" -> "Aucun devoir à venir"
      [] v = "timetable" -> "Aucun cours cette semaine"
      [] v = "grades" -> "Aucune note disponible"
ErrorText(v) ==
    CASE v = "homework" -> "Erreur lors du chargement des devoirs"
      [] v = "timetable" -> "Erreur lors du chargement de l'emploi du temps"
      [] v = "grades" -> "Erreur lors du chargement des notes"

\* displayHomework / displayTimetable / displayGrades of a list.
Display(v, list) ==
    IF ArrayLength(list) = 0 THEN <<"empty", EmptyText(v)>> ELSE <<"data", list[2]>>

\* The continuation of loadX: the stored list and the container's content.
LoadOutcomeStuckOnError(v, res, old) ==
    IF res.threw THEN [list |-> old, shown |-> <<"loading", "">>]
    ELSE IF Truthy(Get(res.data, "success")) /\ Truthy(Get(res.data, ListField(v)))
    THEN [list |-> Get(res.data, ListField(v)),
          shown |-> Display(v, Get(res.data, ListField(v)))]
    ELSE [list |-> old, shown |-> <<"empty", EmptyText(v)>>]
LoadOutcomeRejectsNoData(v, res, old) ==
    IF res.threw THEN [list |-> old, shown |-> <<"error", ErrorText(v)>>]
    ELSE IF Truthy(Get(res.data, "success")) /\ Truthy(Get(res.data, ListField(v)))
    THEN [list |-> Get(res.data, ListField(v)),
          shown |-> Display(v, Get(res.data, ListField(v)))]
    ELSE [list |-> old, shown |-> <<"error", ErrorText(v)>>]
LoadOutcomeSwallowsErrors(v, res, old) ==
    IF res.threw THEN [list |-> old, shown |-> <<"empty", EmptyText(v)>>]
    ELSE IF Truthy(Get(res.data, "success")) /\ Truthy(Get(res.data, ListField(v)))
    THEN [list |-> Get(res.data, ListField(v)),
          shown |-> Display(v, Get(res.data, ListField(v)))]
    ELSE [list |-> old, shown |-> <<"empty", EmptyText(v)>>]
LoadOutcome(v, res, old) ==
    IF res.threw THEN [list |-> old, shown |-> <<"error", ErrorText(v)>>]
    ELSE IF Truthy(Get(res.data, "success")) /\ Truthy(Get(res.data, ListField(v)))
    THEN [list |-> Get(res.data, ListField(v)),
          shown |-> Display(v, Get(res.data, ListField(v)))]
    ELSE [list |-> old, shown |-> <<"empty", EmptyText(v)>>]

\* A refresh button (or a tab switch, or the refresh timer) starts loadX.
LoadStart(v) ==
    /\ Idle
    /\ ops < MaxOps
    /\ ops' = ops + 1
    /\ view' = [view EXCEPT ![v] = <<"loading", "">>]
    /\ inflight' = Launch(inflight, v)
    /\ wire' = <<FetchConfig(accessToken, v)>>
    /\ shown' = ""
    /\ settled' = NoResult
    /\ UNCHANGED <<storage, accessToken, currentUser, screen, entOptions,
                   initialized, data, messages, isTyping, loginRet,
                   unhandled>>

LoadReturn(v, r) ==
    /\ Idle
    /\ Pending(v)
    /\ LET res == Request(Store, r)
           out == LoadOutcome(v, res, data[v])
       IN  /\ settled' = Settle(v, r, res)
           /\ storage' = res.store.item
           /\ accessToken' = res.store.mem
           /\ data' = [data EXCEPT ![v] = out.list]
           /\ view' = [view EXCEPT ![v] = out.shown]
    /\ inflight' = Take(inflight, v)
    /\ wire' = <<>>
    /\ shown' = ""
    /\ UNCHANGED <<currentUser, screen, entOptions, initialized,
                   messages, isTyping, loginRet, unhandled, ops>>

(***************************************************************************)
(* ChatManager.sendMessage.                                                *)
(***************************************************************************)
ChatRejectedText == "Désolé, je n'ai pas pu traiter votre demande."
ChatFailedText == "Une erreur est survenue. Veuillez réessayer."

ChatReplyShowsRawError(res) ==
    IF res.threw THEN res.message
    ELSE IF Truthy(Get(res.data, "success")) /\ Truthy(Get(res.data, "response"))
    THEN ToJSString(Get(res.data, "response"))
    ELSE ChatRejectedText
ChatReply(res) ==
    IF res.threw THEN ChatFailedText
    ELSE IF Truthy(Get(res.data, "success")) /\ Truthy(Get(res.data, "response"))
    THEN ToJSString(Get(res.data, "response"))
    ELSE ChatRejectedText

SendMessageWhileTyping(text) ==
    /\ Idle
    /\ settled' = NoResult
    /\ shown' = ""
    /\ IF Trim(text) = ""
       THEN /\ wire' = <<>>
            /\ UNCHANGED <<messages, isTyping, inflight, ops>>
       ELSE /\ ops < MaxOps
            /\ ops' = ops + 1
            /\ messages' = AddMessage(messages, "user", Trim(text))
            /\ isTyping' = TRUE
            /\ inflight' = Launch(inflight, "chat")
            /\ wire' = <<FetchConfig(accessToken, "chat")>>
    /\ UNCHANGED <<storage, accessToken, currentUser, screen, entOptions,
                   initialized, data, view, loginRet, unhandled>>
SendMessage(text) ==
    /\ Idle
    /\ settled' = NoResult
    /\ shown' = ""
    /\ IF Trim(text) = "" \/ isTyping
       THEN /\ wire' = <<>>
            /\ UNCHANGED <<messages, isTyping, inflight, ops>>
       ELSE /\ ops < MaxOps
            /\ ops' = ops + 1
            /\ messages' = AddMessage(messages, "user", Trim(text))
            /\ isTyping' = TRUE
            /\ inflight' = Launch(inflight, "chat")
            /\ wire' = <<FetchConfig(accessToken, "chat")>>
    /\ UNCHANGED <<storage, accessToken, currentUser, screen, entOptions,
                   initialized, data, view, loginRet, unhandled>>

ChatReturnWithoutFinally(r) ==
    /\ Idle
    /\ Pending("chat")
    /\ LET res == Request(Store, r)
       IN  /\ settled' = Settle("chat", r, res)
           /\ storage' = res.store.item
           /\ accessToken' = res.store.mem
           /\ messages' = AddMessage(messages, "assistant", ChatReply(res))
           /\ isTyping' = res.threw
    /\ inflight' = Take(inflight, "chat")
    /\ wire' = <<>>
    /\ shown' = ""
    /\ UNCHANGED <<currentUser, screen, entOptions, initialized,
                   data, view, loginRet, unhandled, ops>>
ChatReturn(r) ==
    /\ Idle
    /\ Pending("chat")
    /\ LET res == Request(Store, r)
       IN  /\ settled' = Settle("chat", r, res)
           /\ storage' = res.store.item
           /\ accessToken' = res.store.mem
           /\ messages' = AddMessage(messages, "assistant", ChatReply(res))
    /\ isTyping' = FALSE
    /\ inflight' = Take(inflight, "chat")
    /\ wire' = <<>>
    /\ shown' = ""
    /\ UNCHANGED <<currentUser, screen, entOptions, initialized,
                   data, view, loginRet, unhandled, ops>>

(***************************************************************************)
(* The client.                                                             *)
(***************************************************************************)
\* Page load, the two login forms, logout, and everything they start.
Next ==
    \/ \E f \in Forms : HandleDirectLogin(f[1], f[2], f[3])
    \/ \E f \in Forms, e \in SelectorValues : HandleCASLogin(f[1], f[2], f[3], e)
    \/ \E op \in {"direct", "cas"} : \E r \in SessionAnswers(op) : LoginApiReturn(op, r)
    \/ LoginContinue
    \/ HandleLogout
    \/ \E r \in SessionAnswers("logout") : LogoutReturn(r)
    \/ \E r \in SessionAnswers("ents") : EntsReturn(r)
    \/ \E r \in SessionAnswers("health1") : InitHealthReturn(r)
    \/ \E r \in SessionAnswers("health2") : RestoreReturn(r)
    \/ \E v \in Views : \E r \in SessionAnswers(v) : LoadReturn(v, r)

Spec == Init /\ [][Next]_vars

(***************************************************************************)
(* Properties.                                                             *)
(***************************************************************************)
\* Every operation that ends in a call of APIClient.request.
AllOps ==
    {"direct", "cas", "logout", "homework", "timetable", "grades", "chat",
     "ents", "health1", "health2"}

\* The step in which the answer r to the fetch of op is handled.
Returns(op, r) ==
    /\ Pending(op)
    /\ CopiesIn(op, inflight') < CopiesIn(op, inflight)
    /\ CASE op \in {"direct", "cas"} -> LoginApiReturn(op, r)
         [] op = "logout" -> LogoutReturn(r)
         [] op = "ents" -> EntsReturn(r)
         [] op = "health1" -> InitHealthReturn(r)
         [] op = "health2" -> RestoreReturn(r)
         [] op \in Views -> LoadReturn(op, r)
         [] OTHER -> ChatReturn(r)

EmptyStore == [mem |-> Null, item |-> Null]
Is401(r) == r.kind = "http" /\ r.status = 401
Failure(r) == r.kind = "neterror" \/ ~Ok(r)

\* The fetch configuration carries the token exactly when one is held.
CarriesToken(config, token) ==
    IF Truthy(token)
    THEN /\ "Authorization" \in DOMAIN config.headers
         /\ config.headers["Authorization"] = "Bearer " \o token[2]
    ELSE "Authorization" \notin DOMAIN config.headers

\* C1: every fetch issued by a step, and the fetch any endpoint method
\* would issue now, carries an Authorization header if and only if a token
\* is held at that moment, and then its value is 'Bearer ' followed by
\* that token; the headers are a map, so there is at most one.
C1_HeaderIffToken ==
    /\ \A i \in DOMAIN wire : CarriesToken(wire[i], accessToken)
    /\ \A op \in AllOps : CarriesToken(FetchConfig(accessToken, op), accessToken)

\* The data loads of a login are sent with the token that login stored.
C1_Witness ==
    /\ Len(wire) = 3
    /\ accessToken = Str("t2")
    /\ wire[1].headers["Authorization"] = "Bearer t2"

\* C2: a 401 makes request() throw the fixed session-expired message and
\* leaves the token store empty, whatever the endpoint and whether or not
\* a token was held; every step that handles a 401 ends with no token in
\* memory or in sessionStorage, so any later request is sent without an
\* Authorization header.
C2_Request401 ==
    \A op \in AllOps : \A r \in Answers(op) :
        Is401(r) =>
            LET res == Request(Store, r)
            IN  /\ res.threw
                /\ res.message = SessionExpiredMsg
                /\ res.store = EmptyStore
                /\ "Authorization" \notin DOMAIN FetchConfig(res.store.mem, op).headers
C2_UnauthorizedClearsToken ==
    /\ []C2_Request401
    /\ [][\A op \in AllOps :
            Returns(op, Http(401, NoBody)) =>
                /\ storage' = Null
                /\ accessToken' = Null
                /\ op \in {"direct", "cas"} => shown' = SessionExpiredMsg]_vars

\* A login post sent with the token of the previous page was answered 401.
C2_Witness ==
    /\ shown = SessionExpiredMsg
    /\ storage = Null
    /\ accessToken = Null
    /\ ~initialized

\* The message of a failure other than a 401.
FailureMsg(r) ==
    CASE r.kind = "neterror" -> NetworkErrorMsg
      [] r.body = [detail |-> Str("detail text")] -> "detail text"
      [] r.body = [error |-> Str("error text")] -> "error text"
      [] OTHER -> "Erreur HTTP " \o ToString(r.status)

\* C3: a request that fails otherwise than by a 401 (network failure, or
\* a non-2xx status with or without a readable error body) throws, with
\* the body's message or the 'HTTP <status>' fallback, and leaves the token
\* store as it was; the steps handling such an answer leave the token
\* unchanged (logout and the session restore clear it themselves after
\* request has thrown).
C3_RequestFailure ==
    \A op \in AllOps : \A r \in Answers(op) :
        (Failure(r) /\ ~Is401(r)) =>
            LET res == Request(Store, r)
            IN  /\ res.threw
                /\ res.message = FailureMsg(r)
                /\ res.store = Store
C3_OtherFailuresKeepToken ==
    /\ []C3_RequestFailure
    /\ [][\A op \in AllOps \ {"logout", "health2"} :
            (Pending(op) /\ CopiesIn(op, inflight') < CopiesIn(op, inflight)) =>
            \A r \in Answers(op) :
            (Failure(r) /\ ~Is401(r) /\ Returns(op, r)) =>
                /\ storage' = storage
                /\ accessToken' = accessToken
                /\ op \in {"direct", "cas"} => shown' = FailureMsg(r)]_vars

\* A login failed with a 500 without a usable body while a token was held.
C3_Witness ==
    /\ shown = "Erreur HTTP 500"
    /\ accessToken = Str("t1")
    /\ storage = Str("t1")

\* C4: after the logout post has settled, whatever its outcome, the token
\* store is empty.
C4_LogoutClearsToken ==
    /\ \A r \in Answers("logout") : ApiLogout(Store, r).store = EmptyStore
    /\ settled.op = "logout" =>
          /\ storage = Null
          /\ accessToken = Null
          /\ ~ApiIsAuthenticated(Store)

\* The logout post failed with a 500 while a token was held.
C4_Witness ==
    /\ settled.op = "logout"
    /\ settled.held
    /\ settled.threw
    /\ settled.status = 500
    /\ storage = Null
    /\ accessToken = Null

C6_AuthenticatedIffTokenAndProfile ==
    IsAuthenticated <=>
        (ApiIsAuthenticated(Store) /\ currentUser \notin {Null, Undefined})

SuccessWithToken(response) ==
    Truthy(Get(response, "success")) /\ Truthy(Get(response, "access_token"))

\* C7: when the login handler has handled a response with success=true and
\* a token T, the token store holds T, and isAuthenticated() is true only
\* with the profile of that response recorded as current user.
C7_TokenAndProfileTogether ==
    [][(loginRet # NoRet /\ SuccessWithToken(loginRet.response)) =>
          /\ accessToken' = Get(loginRet.response, "access_token")
          /\ storage' = Get(loginRet.response, "access_token")
          /\ IsAuthenticated' =>
                /\ currentUser' = Get(loginRet.response, "student")
                /\ currentUser' \notin {Null, Undefined}]_vars

\* C8: a login whose response has success=false or lacks the token stores
\* no token, records no profile, does not enter the dashboard and shows
\* the failure.
C8_RejectedLoginChangesNothing ==
    [][/\ \A op \in {"direct", "cas"} : \A r \in Answers(op) :
            (Ok(r) /\ r.body # Unparseable /\ ~SuccessWithToken(r.body)
                /\ LoginApiReturn(op, r)) =>
                    (storage' = storage /\ accessToken' = accessToken)
       /\ (loginRet # NoRet /\ ~SuccessWithToken(loginRet.response)) =>
            /\ storage' = storage
            /\ accessToken' = accessToken
            /\ currentUser' = currentUser
            /\ screen' = screen
            /\ shown' # ""]_vars

\* C9: a login submission with an empty portal URL, username or password
\* (or, for the CAS form, no provider selected) shows the fill-in message
\* and sends nothing; token store and profile are unchanged.
Refused ==
    /\ shown' = FillAllFieldsMsg
    /\ wire' = <<>>
    /\ inflight' = inflight
    /\ storage' = storage
    /\ accessToken' = accessToken
    /\ currentUser' = currentUser
    /\ screen' = screen
C9_Checks ==
    \A url \in FormValues, username \in FormValues, password \in FormValues :
        ("" \in {url, username, password}) =>
            /\ DirectRejects(url, username, password)
            /\ \A e \in {"", "ent1"} : CASRejects(url, username, password, e)
C9_EmptyFieldRejected ==
    []C9_Checks /\
    [][\A f \in Forms :
         /\ ((\E i \in 1..3 : f[i] = "") /\ HandleDirectLogin(f[1], f[2], f[3]))
                => Refused
         /\ \A e \in SelectorValues :
              (((\E i \in 1..3 : f[i] = "") \/ e = "")
                  /\ HandleCASLogin(f[1], f[2], f[3], e)) => Refused]_vars

\* A submission was refused although the provider list never arrived.
C9_Witness ==
    /\ shown = FillAllFieldsMsg
    /\ wire = <<>>
    /\ entOptions = {}
    /\ ~Pending("ents")
    /\ ops = 0

\* C10: isAuthenticated() becomes true only in a login step, is false
\* after a completed logout and after a 401, and nothing else changes it.
C10_SessionLifecycle ==
    [][/\ (~IsAuthenticated /\ IsAuthenticated') =>
              (loginRet # NoRet \/ loginRet' # NoRet)
       /\ (IsAuthenticated /\ ~IsAuthenticated') =>
              \/ \E r \in Answers("logout") : LogoutReturn(r)
              \/ \E op \in AllOps : Returns(op, Http(401, NoBody))
       /\ ((\E r \in Answers("logout") : LogoutReturn(r))
              \/ (\E op \in AllOps : Returns(op, Http(401, NoBody))))
            => ~IsAuthenticated']_vars

(***************************************************************************)
(* The dashboard.  Two further environments of the same client: one with   *)
(* the data refreshes and every answer the data endpoints can give, one    *)
(* with the chat and every answer the chat endpoint can give.  The         *)
(* refresh buttons and the chat input are on the dashboard screen.         *)
(***************************************************************************)
\* The answers of the endpoints an environment does not study: a
\* well-formed success, or for a login also a 401.
PlainAnswers(op) ==
    CASE op \in {"direct", "cas"} ->
            {Http(401, NoBody),
             Http(200, [success |-> JTrue, access_token |-> Str("t2"), student |-> Alice])}
      [] op \in Views -> {Http(200, [success |-> JTrue] @@ (ListField(op) :> Arr("[x]")))}
      [] op = "logout" -> {Http(200, [success |-> JTrue])}
      [] op = "ents" -> {Http(200, [ents |-> Arr("[x]")])}
      [] OTHER -> {Http(200, [status |-> Str("healthy")])}

DataNext ==
    \/ HandleDirectLogin("x", "x", "x")
    \/ \E r \in PlainAnswers("direct") : LoginApiReturn("direct", r)
    \/ LoginContinue
    \/ \E r \in PlainAnswers("ents") : EntsReturn(r)
    \/ \E r \in PlainAnswers("health1") : InitHealthReturn(r)
    \/ \E r \in PlainAnswers("health2") : RestoreReturn(r)
    \/ \E v \in Views : screen = "dashboard" /\ LoadStart(v)
    \/ \E v \in Views : \E r \in Answers(v) : LoadReturn(v, r)

DataSpec == Init /\ [][DataNext]_vars

ChatNext ==
    \/ HandleDirectLogin("x", "x", "x")
    \/ \E r \in PlainAnswers("direct") : LoginApiReturn("direct", r)
    \/ LoginContinue
    \/ HandleLogout
    \/ \E r \in PlainAnswers("logout") : LogoutReturn(r)
    \/ \E r \in PlainAnswers("ents") : EntsReturn(r)
    \/ \E r \in PlainAnswers("health1") : InitHealthReturn(r)
    \/ \E r \in PlainAnswers("health2") : RestoreReturn(r)
    \/ \E v \in Views : \E r \in PlainAnswers(v) : LoadReturn(v, r)
    \/ \E t \in FormValues : screen = "dashboard" /\ SendMessage(t)
    \/ \E r \in Answers("chat") : ChatReturn(r)

ChatSpec == Init /\ [][ChatNext]_vars

(***************************************************************************)
(* PronoteDataManager.displayGrades on a list of grade items.  An item is  *)
(* a record of the fields displayGrades reads; a field the response lacks  *)
(* reads as undefined.                                                     *)
(***************************************************************************)
MaxGrades == 2

NumberTexts == {"0", "10", "12", "15", "20"}
GradeValues == {Undefined, Null, Num("0"), Str("15"), Num("12")}
OutOfValues == {Undefined, Str("20"), Num("10")}
SubjectOf(i) == IF i = 1 THEN "Math" ELSE IF i = 2 THEN "Art" ELSE "Sport"
GradeLists ==
    UNION {{[i \in 1..n |-> [subject |-> Str(SubjectOf(i)),
                             grade |-> f[i][1], out_of |-> f[i][2]]] :
                f \in [1..n -> GradeValues \X OutOfValues]} : n \in 0..MaxGrades}

\* parseFloat of a number or of a string of digits; NaN for anything else.
IsNumeric(v) == v[1] \in {"number", "string"} /\ v[2] \in NumberTexts
ParseFloat(v) == CHOOSE n \in 0..20 : ToString(n) = v[2]

\* Number.prototype.toFixed(2) of the quotient n / d, d > 0.
ToFixed2(n, d) ==
    LET h == (200 * n + d) \div (2 * d)
    IN  ToString(h \div 100) \o "." \o (IF h % 100 < 10 THEN "0" ELSE "")
            \o ToString(h % 100)

RECURSIVE ProductOutOf(_)
ProductOutOf(gs) ==
    IF gs = <<>> THEN 1 ELSE ParseFloat(Head(gs).out_of) * ProductOutOf(Tail(gs))
\* The sum of grade / out_of * 20 over gs, as a multiple of 1 / p.
RECURSIVE SumOn20(_, _)
SumOn20(gs, p) ==
    IF gs = <<>> THEN 0
    ELSE ParseFloat(Head(gs).grade) * 20 * (p \div ParseFloat(Head(gs).out_of))
            + SumOn20(Tail(gs), p)

\* The filter of the general average.
ValidGradeNeedsOutOfOnly(g) == Truthy(g.out_of)
ValidGrade(g) == Truthy(g.grade) /\ Truthy(g.out_of)

\* The summary block: average text and number of grades; no block (empty
\* text, 0) when no item passes the filter.
GradesSummary(grades) ==
    LET validGrades == SelectSeq(grades, ValidGrade)
    IN  IF Len(validGrades) = 0 THEN [average |-> "", count |-> 0]
        ELSE [average |->
                (IF \E i \in 1..Len(validGrades) :
                        ~IsNumeric(validGrades[i].grade) \/ ~IsNumeric(validGrades[i].out_of)
                 THEN "NaN"
                 ELSE ToFixed2(SumOn20(validGrades, ProductOutOf(validGrades)),
                               Len(validGrades) * ProductOutOf(validGrades))) \o "/20",
              count |-> Len(validGrades)]

\* The items listed below the summary.
ListedGrade(g) == Truthy(g.grade)
GradesListed(grades) ==
    LET listed == SelectSeq(grades, ListedGrade)
    IN  [i \in 1..Len(listed) |->
            [subject |-> ToJSString(listed[i].subject),
             number |-> ToJSString(listed[i].grade),
             outOf |-> ToJSString(OrElse(listed[i].out_of, Num("20")))]]

DisplayGrades(grades) ==
    IF Len(grades) = 0 THEN <<"empty", EmptyText("grades")>>
    ELSE <<"data", [summary |-> GradesSummary(grades), items |-> GradesListed(grades)]>>

\* loadGrades on the dashboard, its response with the list grades just
\* stored in this.data.grades.
GradesInit ==
    /\ storage = Str("t2")
    /\ accessToken = Str("t2")
    /\ currentUser = Alice
    /\ screen = "dashboard"
    /\ entOptions \in {{}, {"ent1"}}
    /\ initialized = TRUE
    /\ \E grades \in GradeLists :
          data = [v \in Views |-> IF v = "grades" THEN grades ELSE Arr("[x]")]
    /\ view = [v \in Views |-> IF v = "grades" THEN <<"loading", "">>
                               ELSE Display(v, Arr("[x]"))]
    /\ messages = AddMessage(<<>>, "assistant", WelcomeText)
    /\ isTyping = FALSE
    /\ inflight = EmptyBag
    /\ loginRet = NoRet
    /\ wire = <<>>
    /\ shown = ""
    /\ settled = NoResult
    /\ unhandled = {}
    /\ ops = 1

\* ... and displayed.
DisplayGradesStep ==
    /\ view["grades"] = <<"loading", "">>
    /\ view' = [view EXCEPT !["grades"] = DisplayGrades(data["grades"])]
    /\ UNCHANGED <<storage, accessToken, currentUser, screen, entOptions,
                   initialized, data, messages, isTyping, inflight, loginRet,
                   wire, shown, settled, unhandled, ops>>

GradesNext == DisplayGradesStep

GradesSpec == GradesInit /\ [][GradesNext]_vars
\* The chat environment when every chat request is answered and every
\* continuation that is ready runs.
ChatLiveSpec ==
    /\ ChatSpec
    /\ WF_vars(LoginContinue)
    /\ WF_vars(\E r \in Answers("chat") : ChatReturn(r))
(***************************************************************************)
(* ChatManager.addMessage and clearMessages on a history of any length up  *)
(* to the limit: the dashboard after n messages, numbered in the order     *)
(* they were added.                                                        *)
(***************************************************************************)
History(n) ==
    [i \in 1..n |-> [role |-> IF i % 2 = 1 THEN "assistant" ELSE "user",
                     content |-> ToString(i)]]

HistoryInit ==
    /\ storage = Str("t2")
    /\ accessToken = Str("t2")
    /\ currentUser = Alice
    /\ screen = "dashboard"
    /\ entOptions \in {{}, {"ent1"}}
    /\ initialized = TRUE
    /\ data = [v \in Views |-> Arr("[x]")]
    /\ view = [v \in Views |-> Display(v, Arr("[x]"))]
    /\ \E n \in 0..MAX_CHAT_MESSAGES : messages = History(n)
    /\ isTyping = FALSE
    /\ inflight = EmptyBag
    /\ loginRet = NoRet
    /\ wire = <<>>
    /\ shown = ""
    /\ settled = NoResult
    /\ unhandled = {}
    /\ ops = 0

AddMessageStep(role, content) ==
    /\ ops < MaxOps
    /\ ops' = ops + 1
    /\ messages' = AddMessage(messages, role, content)
    /\ UNCHANGED <<storage, accessToken, currentUser, screen, entOptions,
                   initialized, data, view, isTyping, inflight, loginRet,
                   wire, shown, settled, unhandled>>

ClearMessagesStep ==
    /\ ops < MaxOps
    /\ ops' = ops + 1
    /\ messages' = <<>>
    /\ UNCHANGED <<storage, accessToken, currentUser, screen, entOptions,
                   initialized, data, view, isTyping, inflight, loginRet,
                   wire, shown, settled, unhandled>>

HistoryNext ==
    \/ \E role \in {"user", "assistant"} : AddMessageStep(role, "new")
    \/ ClearMessagesStep

HistorySpec == HistoryInit /\ [][HistoryNext]_vars
\* The dashboard from the moment onLoginSuccess has called loadAllData,
\* page load finished: the three fetches are in flight; refreshes follow.
LoadsInit ==
    /\ storage = Str("t2")
    /\ accessToken = Str("t2")
    /\ currentUser = Alice
    /\ screen = "dashboard"
    /\ entOptions \in {{}, {"ent1"}}
    /\ initialized = TRUE
    /\ data = [v \in Views |-> Arr("[]")]
    /\ view = [v \in Views |-> <<"loading", "">>]
    /\ messages = AddMessage(<<>>, "assistant", WelcomeText)
    /\ isTyping = FALSE
    /\ inflight = SetToBag(Views)
    /\ loginRet = NoRet
    /\ wire = <<FetchConfig(accessToken, "homework"),
                FetchConfig(accessToken, "timetable"),
                FetchConfig(accessToken, "grades")>>
    /\ shown = ""
    /\ settled = NoResult
    /\ unhandled = {}
    /\ ops = 1

LoadsNext ==
    \/ \E v \in Views : LoadStart(v)
    \/ \E v \in Views : \E r \in Answers(v) : LoadReturn(v, r)

\* ... when every data request is answered.
LoadsLiveSpec ==
    /\ LoadsInit
    /\ [][LoadsNext]_vars
    /\ \A v \in Views : WF_vars(\E r \in Answers(v) : LoadReturn(v, r))
(***************************************************************************)
(* PronoteDataManager.loadTimetable: the week it asks for.  Instants are   *)
(* counted in days, day 0 being a Sunday; the time of day is that of the   *)
(* call and is the same in today, monday and sunday.                       *)
(***************************************************************************)
MaxDay == 13
Days == 0..MaxDay

\* Date.prototype.getDay: 0 for Sunday ... 6 for Saturday.
GetDay(d) == d % 7

\* monday.setDate(today.getDate() - today.getDay() + 1) and
\* sunday.setDate(monday.getDate() + 6); setDate carries into the
\* neighbouring months.
WeekRange(today) ==
    LET monday == today - GetDay(today) + 1
    IN  [date_from |-> monday, date_to |-> monday + 6]

\* loadTimetable called on the day today, up to its await.
LoadTimetableOn(today) ==
    /\ Idle
    /\ ops < MaxOps
    /\ ops' = ops + 1
    /\ view' = [view EXCEPT !["timetable"] = <<"loading", "">>]
    /\ inflight' = Launch(inflight, "timetable")
    /\ wire' = <<FetchConfig(accessToken, "timetable") @@ WeekRange(today)>>
    /\ shown' = ""
    /\ settled' = NoResult
    /\ UNCHANGED <<storage, accessToken, currentUser, screen, entOptions,
                   initialized, data, messages, isTyping, loginRet,
                   unhandled>>

\* The dashboard with the timetable refreshed on any day.
WeekNext ==
    \/ \E today \in Days : LoadTimetableOn(today)
    \/ \E v \in Views : \E r \in Answers(v) : LoadReturn(v, r)

WeekSpec == LoadsInit /\ [][WeekNext]_vars
\* C11: a page loaded with a token in sessionStorage and no profile is not
\* authenticated, and once App.init has finished without any user event
\* the token is cleared, whether the health check of the session restore
\* succeeded or failed.
C11_ReloadForcesLogin ==
    /\ currentUser = Null => ~IsAuthenticated
    /\ settled.op = "health2" => (initialized /\ Store = EmptyStore)
    /\ (initialized /\ ops = 0) => Store = EmptyStore
    /\ \A r \in Answers("health2") : RestoreOutcome(Store, r) = EmptyStore

\* Init has finished after a session restore whose health check succeeded
\* while the token of the previous page was still held.
C11_Witness ==
    /\ initialized
    /\ ops = 0
    /\ settled.op = "health2"
    /\ settled.status = 200
    /\ ~settled.threw
    /\ settled.held
    /\ currentUser = Null
    /\ Store = EmptyStore

\* A transported answer without data: success=false, or success=true
\* without the list.
NoData(v, r) ==
    /\ r.kind = "http"
    /\ Ok(r)
    /\ r.body # Unparseable
    /\ ~(Truthy(Get(r.body, "success")) /\ Truthy(Get(r.body, ListField(v))))

Answered(op) == Pending(op) /\ CopiesIn(op, inflight') < CopiesIn(op, inflight)

\* C12: for each of the three data fetches an answer with success=false,
\* or with success=true and no list, does not make the API call throw and
\* ends in the empty state of the view; nothing is rejected and no error
\* is shown.
C12_NoDataOutcome ==
    \A v \in Views : \A r \in Answers(v) :
        NoData(v, r) =>
            /\ ~Request(Store, r).threw
            /\ LoadOutcome(v, Request(Store, r), data[v]).shown = <<"empty", EmptyText(v)>>
C12_NoDataIsEmptyState ==
    /\ []C12_NoDataOutcome
    /\ [][\A v \in Views : Answered(v) =>
            \A r \in Answers(v) :
                (NoData(v, r) /\ LoadReturn(v, r)) =>
                    /\ view'[v] = <<"empty", EmptyText(v)>>
                    /\ view'[v][1] # "error"
                    /\ unhandled' = unhandled
                    /\ shown' = ""
                    /\ storage' = storage
                    /\ accessToken' = accessToken]_vars

\* A refresh of the grades was answered without data: the view is empty
\* while the list of the earlier load is still held.
C12_Witness ==
    /\ view["grades"] = <<"empty", EmptyText("grades")>>
    /\ data["grades"] = Arr("[x]")
    /\ ~Pending("grades")
    /\ screen = "dashboard"

\* C13: for each of the three data fetches a network failure, a non-2xx
\* status or a 401 makes the API call throw and ends in the error state
\* of the view, which is not the empty state.
C13_FailureOutcome ==
    \A v \in Views : \A r \in Answers(v) :
        Failure(r) =>
            /\ Request(Store, r).threw
            /\ LoadOutcome(v, Request(Store, r), data[v]).shown = <<"error", ErrorText(v)>>
            /\ <<"error", ErrorText(v)>> # <<"empty", EmptyText(v)>>
            /\ ErrorText(v) # EmptyText(v)
C13_FailureIsErrorState ==
    /\ []C13_FailureOutcome
    /\ [][\A v \in Views : Answered(v) =>
            \A r \in Answers(v) :
                (Failure(r) /\ LoadReturn(v, r)) =>
                    /\ view'[v] = <<"error", ErrorText(v)>>
                    /\ view'[v][1] # "empty"
                    /\ unhandled' = unhandled]_vars

\* The homework load was answered 401: error state, token cleared, the
\* other two loads answered with data.
C13_Witness ==
    /\ view["homework"] = <<"error", ErrorText("homework")>>
    /\ view["timetable"][1] = "data"
    /\ view["grades"][1] = "data"
    /\ Store = EmptyStore
    /\ currentUser = Alice

\* The answer of the chat endpoint carries a reply: success=true and a
\* non-empty response.
HasReply(r) ==
    /\ r.kind = "http"
    /\ Ok(r)
    /\ r.body # Unparseable
    /\ Truthy(Get(r.body, "success"))
    /\ Truthy(Get(r.body, "response"))

\* One assistant message with this content was appended, the typing
\* indicator is off, and no error left sendMessage or was displayed.
AssistantSaid(content) ==
    /\ messages' = Append(messages, [role |-> "assistant", content |-> content])
    /\ ~isTyping'
    /\ unhandled' = unhandled
    /\ shown' = ""

\* C14 as stated: the answer to a chat send appends exactly one assistant
\* message, the reply text when the response carries one and otherwise,
\* for every other outcome, the one apology phrase.
C14_OneFallbackPhrase ==
    [][Answered("chat") =>
          \A r \in Answers("chat") :
              ChatReturn(r) =>
                  AssistantSaid(IF HasReply(r)
                                THEN ToJSString(Get(r.body, "response"))
                                ELSE ChatRejectedText)]_vars

\* C14: the answer to a chat send appends exactly one assistant message
\* and no error leaves sendMessage: the reply text when the response
\* carries one, the apology phrase when the request returned a body
\* without success or without reply text, and the retry phrase when the
\* request threw (network failure, non-2xx status, 401, unreadable body).
C14_ChatAbsorbsFailures ==
    [][Answered("chat") =>
          \A r \in Answers("chat") :
              ChatReturn(r) =>
                  AssistantSaid(
                      CASE HasReply(r) -> ToJSString(Get(r.body, "response"))
                        [] Request(Store, r).threw -> ChatFailedText
                        [] OTHER -> ChatRejectedText)]_vars

\* Two sends were answered, the first without success or reply text, the
\* second by a failed request.
C14_Witness ==
    /\ Len(messages) = 5
    /\ messages[2].role = "user"
    /\ messages[3] = [role |-> "assistant", content |-> ChatRejectedText]
    /\ messages[4].role = "user"
    /\ messages[5] = [role |-> "assistant", content |-> ChatFailedText]
    /\ ~isTyping
    /\ unhandled = {}

\* The token store after request has handled the answers rs, in this
\* order, starting from the store st.
RECURSIVE AfterAll(_, _)
AfterAll(st, rs) ==
    IF rs = <<>> THEN st ELSE AfterAll(Request(st, Head(rs)).store, Tail(rs))

StoreValues ==
    {[mem |-> m, item |-> i] : m \in {Null, Str("t1"), Str("t2")},
                               i \in {Null, Str("t1"), Str("t2")}}
Orders == {p \in [1..3 -> 1..3] : \A i \in 1..3 : \A j \in 1..3 : p[i] = p[j] => i = j}

\* Whatever the order in which the answers to the three data fetches are
\* handled, the token store ends empty if one of them was a 401 and as it
\* was otherwise; clearing a cleared store changes nothing.
C15_AnyOrder ==
    \A st \in StoreValues :
        /\ Request(Request(st, Http(401, NoBody)).store, Http(401, NoBody)).store
              = Request(st, Http(401, NoBody)).store
        /\ \A a \in Answers("homework") : \A b \in Answers("timetable") :
             \A c \in Answers("grades") : \A p \in Orders :
                AfterAll(st, [i \in 1..3 |-> <<a, b, c>>[p[i]]])
                    = IF Is401(a) \/ Is401(b) \/ Is401(c) THEN EmptyStore ELSE st

\* C15: with several data fetches in flight, the step handling the answer
\* to one of them leaves the token store as it was unless the answer is a
\* 401, which empties it; so in every order of the answers the store ends
\* empty if one of them was a 401 and unchanged otherwise.
C15_ConcurrentRequestsAndToken ==
    /\ [](/\ Store \in StoreValues
          /\ C15_AnyOrder
          /\ screen = "dashboard" =>
                Store \in {EmptyStore, [mem |-> Str("t2"), item |-> Str("t2")]})
    /\ [][\A v \in Views : Answered(v) =>
            \A r \in Answers(v) :
                LoadReturn(v, r) =>
                    Store' = IF Is401(r) THEN EmptyStore ELSE Store]_vars

\* Of the three fetches launched together the first was answered 401 while
\* the other two are still in flight: the token is gone.
C15_Witness ==
    /\ view["homework"] = <<"error", ErrorText("homework")>>
    /\ Pending("timetable")
    /\ Pending("grades")
    /\ view["timetable"][1] = "loading"
    /\ Store = EmptyStore
    /\ currentUser = Alice

\* The number of fetches sent to the endpoint of op in this step.
SentTo(op) ==
    Cardinality({i \in 1..Len(wire') :
        wire'[i].endpoint = Endpoint(op) /\ wire'[i].method = Method(op)})

\* C16: a call of request sends one fetch and an answer settles one call:
\* in every step the calls pending on an endpoint grow by the number of
\* fetches sent to it, an answered call is one call less and sends
\* nothing again, whatever the answer was, and calls of the same endpoint
\* are pending side by side.
C16_OneFetchPerCall ==
    [][/\ \A op \in AllOps \ {"health1", "health2"} :
            /\ CopiesIn(op, inflight') >= CopiesIn(op, inflight) =>
                  CopiesIn(op, inflight') = CopiesIn(op, inflight) + SentTo(op)
            /\ CopiesIn(op, inflight') < CopiesIn(op, inflight) =>
                  /\ CopiesIn(op, inflight') = CopiesIn(op, inflight) - 1
                  /\ SentTo(op) = 0
       /\ BagCardinality(inflight') >= BagCardinality(inflight) - 1
       /\ BagCardinality(inflight') > BagCardinality(inflight) =>
             BagCardinality(inflight') = BagCardinality(inflight) + Len(wire')
       /\ \A v \in Views : Answered(v) =>
             \A r \in Answers(v) :
                (Failure(r) /\ LoadReturn(v, r)) =>
                    (wire' = <<>> /\ inflight' (+) SetToBag({v}) = inflight)]_vars

\* Two refreshes of the grades are pending at once, after a first one
\* failed.
C16_Witness ==
    /\ CopiesIn("grades", inflight) = 2
    /\ view["homework"][1] = "error"
    /\ wire # <<>>

\* Token values: opaque strings.
TokenStrings == {"", "t1", "t2"}

\* C17: whatever the token store holds, for every token t loadToken()
\* right after saveToken(t) returns t, and APIClient.isAuthenticated()
\* right after clearToken() is false; so it is where the client does it:
\* when the login call has saved the token of its response, and when a
\* logout has cleared.
C17_RoundTrip ==
    /\ \A t \in TokenStrings : LoadToken(SaveToken(Store, Str(t))) = Str(t)
    /\ ~ApiIsAuthenticated(ClearToken(Store))
    /\ (loginRet # NoRet /\ SuccessWithToken(loginRet.response)) =>
          LoadToken(Store) = Get(loginRet.response, "access_token")
    /\ settled.op = "logout" => ~ApiIsAuthenticated(Store)

\* The login call has just saved the token of its response, and loadToken
\* returns it.
C17_Witness ==
    /\ loginRet # NoRet
    /\ SuccessWithToken(loginRet.response)
    /\ LoadToken(Store) = Str("t2")
    /\ accessToken = Str("t2")

\* C18: whatever the token store holds, after saveToken(a); saveToken(b)
\* it holds b, and clearToken on an empty store or a second time changes
\* nothing.
C18_OverwriteAndIdempotentClear ==
    /\ \A a \in TokenStrings : \A b \in TokenStrings :
          /\ SaveToken(SaveToken(Store, Str(a)), Str(b)) = [mem |-> Str(b), item |-> Str(b)]
          /\ SaveToken(Store, Str(b)) = [mem |-> Str(b), item |-> Str(b)]
    /\ ClearToken(EmptyStore) = EmptyStore
    /\ ClearToken(ClearToken(Store)) = ClearToken(Store)
    /\ (loginRet # NoRet /\ SuccessWithToken(loginRet.response)) =>
          Store = [mem |-> Get(loginRet.response, "access_token"),
                   item |-> Get(loginRet.response, "access_token")]

\* The page was loaded with the token of an earlier session, whose
\* restore is still pending, and the login call has just saved a new one
\* over it.
C18_Witness ==
    /\ Pending("health2")
    /\ loginRet # NoRet
    /\ Store = [mem |-> Str("t2"), item |-> Str("t2")]

\* The grade value is there: neither null nor missing.
GradePresent(g) == g.grade \notin {Null, Undefined}

ScenarioC ==
    <<[subject |-> Str("Math"), grade |-> Str("15"), out_of |-> Str("20")],
      [subject |-> Str("Art"), grade |-> Null, out_of |-> Undefined]>>

\* C19: an item whose grade is null or missing adds nothing to the general
\* average and to the number of grades (the summary is that of the list
\* without these items), is not listed, and the average stays a number;
\* for [{Math, 15, 20}, {Art, null}] the average is 15.00/20 over 1 grade.
C19_AbsentGradeIgnored ==
    /\ GradesSummary(ScenarioC) = [average |-> "15.00/20", count |-> 1]
    /\ view["grades"][1] = "data" =>
          LET grades == data["grades"]
              out == view["grades"][2]
          IN  /\ out.summary = GradesSummary(SelectSeq(grades, GradePresent))
              /\ out.summary.count <= Len(SelectSeq(grades, GradePresent))
              /\ out.summary.average # "NaN/20"
              /\ Len(out.items) <= Len(SelectSeq(grades, GradePresent))
              /\ \A i \in 1..Len(out.items) : out.items[i].number \notin {"null", "undefined"}

\* The list of scenario C was displayed.
C19_Witness ==
    /\ data["grades"] = ScenarioC
    /\ view["grades"][1] = "data"
    /\ view["grades"][2].summary = [average |-> "15.00/20", count |-> 1]
    /\ Len(view["grades"][2].items) = 1

\* C20: the items averaged and counted are exactly those with a present
\* grade, a numeric 0 included, each with an out-of value of 20 when its
\* own is absent.
WithDefaultOutOf(grades) ==
    [i \in 1..Len(grades) |-> [grades[i] EXCEPT !.out_of = OrElse(@, Num("20"))]]
C20_EveryPresentGradeCounts ==
    view["grades"][1] = "data" =>
        LET present == SelectSeq(data["grades"], GradePresent)
            out == view["grades"][2]
        IN  /\ out.summary.count = Len(present)
            /\ Len(present) > 0 =>
                  out.summary.average
                      = ToFixed2(SumOn20(WithDefaultOutOf(present),
                                         ProductOutOf(WithDefaultOutOf(present))),
                                 Len(present) * ProductOutOf(WithDefaultOutOf(present)))
                            \o "/20"

\* The token of the session opened by a login of this page; the requests
\* of the page load were sent before it, with the stored token or none.
NewSession == [mem |-> Str("t2"), item |-> Str("t2")]

\* C21: a 401 answering a request that was sent before the current token
\* was obtained (here the provider list, requested at page load) leaves
\* the token of the new session in place, and the session authenticated.
C21_Late401KeepsNewSession ==
    [][(Answered("ents") /\ Store = NewSession /\ EntsReturn(Http(401, NoBody))) =>
          /\ Store' = NewSession
          /\ IsAuthenticated => IsAuthenticated']_vars

\* Profile, chat history and the three stored lists are empty.
Cleared ==
    /\ currentUser = Null
    /\ messages = <<>>
    /\ \A v \in Views : ArrayLength(data[v]) = 0

\* C22: when handleLogout has completed, profile, chat history and the
\* three stored lists are empty, and no step other than the completion
\* of a login changes that, the handling of a late answer included.
C22_LogoutClearsForGood ==
    /\ [](settled.op = "logout" => Cleared)
    /\ [][(Cleared /\ screen = "login" /\ loginRet = NoRet) => Cleared']_vars

\* C23: the session restore of App.init leaves the token saved by a login
\* of this page in place, whatever the health check answers short of a
\* 401.
C23_RestoreKeepsLoginToken ==
    [][(Answered("health2") /\ Store = NewSession) =>
          \A r \in SessionAnswers("health2") \ {Http(401, NoBody)} :
              RestoreReturn(r) => Store' = NewSession]_vars

\* C24: the accessToken field and the access_token item of sessionStorage
\* hold the same thing, nothing or the same string, in every state, and
\* after saveToken, clearToken and request on any answer.
C24_MemoryMatchesStorage ==
    /\ accessToken = storage
    /\ accessToken = Null \/ accessToken[1] = "string"
    /\ \A t \in TokenStrings : SaveToken(Store, Str(t)).mem = SaveToken(Store, Str(t)).item
    /\ ClearToken(Store).mem = ClearToken(Store).item
    /\ \A op \in AllOps : \A r \in Answers(op) :
          Request(Store, r).store.mem = Request(Store, r).store.item

\* A second session: the page was loaded with a stored token, that
\* session was logged out, and a login saved a new token.
C24_Witness ==
    /\ accessToken = Str("t2")
    /\ storage = Str("t2")
    /\ initialized
    /\ screen = "dashboard"
    /\ ops = 3

\* C25: a view whose last load ended in the empty or the error state has
\* an empty stored list.
C25_StoredListMatchesView ==
    \A v \in Views :
        (view[v][1] \in {"empty", "error"} /\ ~Pending(v)) => ArrayLength(data[v]) = 0

\* C26: at most one chat request is in flight, isTyping is true exactly
\* while it is, and a send trigger while isTyping is true adds no message
\* and sends nothing.
C26_OneChatInFlight ==
    /\ [](/\ CopiesIn("chat", inflight) <= 1
          /\ isTyping <=> Pending("chat"))
    /\ [][isTyping =>
            \A t \in FormValues :
                SendMessage(t) =>
                    /\ messages' = messages
                    /\ inflight' = inflight
                    /\ wire' = <<>>
                    /\ isTyping']_vars

\* A chat request is in flight, the user's message is the last of the
\* history, and the step before sent nothing.
C26_Witness ==
    /\ isTyping
    /\ CopiesIn("chat", inflight) = 1
    /\ Len(messages) = 2
    /\ messages[2].role = "user"
    /\ wire = <<>>
    /\ BagCardinality(inflight) = 1

\* C27: when every chat request is answered, isTyping, once true, becomes
\* false again, whatever the answer.
C27_TypingEnds == isTyping ~> ~isTyping

\* A send was answered by a failed request and the chat is free again.
C27_Witness ==
    /\ ~isTyping
    /\ ~Pending("chat")
    /\ Len(messages) = 3
    /\ messages[3] = [role |-> "assistant", content |-> ChatFailedText]
    /\ settled.op = "none"

\* C28: the history never holds more than MAX_CHAT_MESSAGES messages;
\* addMessage appends the message, and on a full history drops the oldest
\* one and keeps the others in their order; clearMessages empties it.
C28_HistoryBounded ==
    /\ [](Len(messages) <= MAX_CHAT_MESSAGES)
    /\ [][/\ \A role \in {"user", "assistant"} :
               AddMessageStep(role, "new") =>
                   messages' =
                       Append(IF Len(messages) = MAX_CHAT_MESSAGES
                              THEN Tail(messages) ELSE messages,
                              [role |-> role, content |-> "new"])
          /\ ClearMessagesStep => messages' = <<>>]_vars

\* Two messages were added to a full history: the two oldest are gone,
\* the others kept their order.
C28_Witness ==
    /\ Len(messages) = MAX_CHAT_MESSAGES
    /\ messages[1].content = "3"
    /\ messages[MAX_CHAT_MESSAGES - 2].content = ToString(MAX_CHAT_MESSAGES)
    /\ messages[MAX_CHAT_MESSAGES - 1].content = "new"
    /\ messages[MAX_CHAT_MESSAGES].content = "new"

\* C29: when every request is answered, a view that is loading comes to
\* show data, the empty state or the error state, each view for itself
\* whatever the other two fetches give, and no rejection leaves the
\* loads.
C29_LoadsSettle ==
    /\ \A v \in Views :
          (view[v][1] = "loading") ~> (view[v][1] \in {"data", "empty", "error"})
    /\ [](unhandled = {})

\* The three fetches launched together ended differently: one failed,
\* one had no data, one had data.
C29_Witness ==
    /\ view["homework"] = <<"error", ErrorText("homework")>>
    /\ view["timetable"] = <<"empty", EmptyText("timetable")>>
    /\ view["grades"][1] = "data"
    /\ inflight = EmptyBag
    /\ unhandled = {}
    /\ ops = 1

\* C30: on whatever day loadTimetable runs, Sunday included, date_from is
\* the Monday at or before that day, date_to is six days later, and the
\* day lies between them.
C30_CurrentWeek ==
    [][\A today \in Days :
          LoadTimetableOn(today) =>
              /\ GetDay(wire'[1].date_from) = 1
              /\ wire'[1].date_from <= today
              /\ wire'[1].date_to = wire'[1].date_from + 6
              /\ today <= wire'[1].date_to]_vars

====
